---------------------------- MODULE Spec2Model ----------------------------
(***************************************************************************)
(* The three views of object_segmentation/detector (views.py, urls.py):    *)
(* index, detection and segmentation, with the media directory they write  *)
(* to and the two models loaded when the module is imported.               *)
(*                                                                         *)
(* Numbers: a score and a mask value are thousandths (0.9 is 900), a box   *)
(* coordinate is tenths of a pixel, a pixel channel is a byte 0..255.      *)
(* A picture is a function from Pos to a triple of channels.               *)
(***************************************************************************)
EXTENDS Integers, Sequences, FiniteSets, TLC

VARIABLES
    detr_model,      \* views.py:13-15  the module-level DETR model's state
    maskrcnn_model,  \* views.py:18-19  the module-level Mask R-CNN model's state
    files,           \* the media directory: path -> content
    pc,              \* per request: the place of its handler
    view,            \* per request: the view urls.py routed it to
    upload,          \* per request: request.FILES['image'] (name and bytes)
    filename,        \* per request: the name fs.save returned
    image_np,        \* per request: the decoded RGB array
    image_cv,        \* per request: the BGR working copy that is drawn on
    outputs,         \* per request: what the model returned for the image
    results,         \* per request: detection results after post-processing
    idx,             \* per request: the position of the drawing loop
    drawn,           \* per request: the rectangle/putText calls made, in order
    blended,         \* per request: the mask blends made, in order
    written,         \* per request: the cv2.imwrite call and what it returned
    response         \* per request: what the view returned to the caller

vars == <<detr_model, maskrcnn_model, files, pc, view, upload, filename,
          image_np, image_cv, outputs, results, idx, drawn, blended,
          written, response>>

----------------------------------------------------------------------------
(* Bounds of the model *)

MaxRequests == 2
MaxResults == 2
Width == 3
Height == 2

(* Constants of the program *)

DetThreshold == 900
SegThreshold == 500
MaskThreshold == 128
MaskScale == 255
Thickness == 2
TextOffset == 10
RandHigh == 255

Requests == 1..MaxRequests
Pos == (0..(Width - 1)) \X (0..(Height - 1))

NoImage == <<>>
Green == <<0, 255, 0>>

----------------------------------------------------------------------------
(* Module import: the models *)

LoadedModel(name) == [name |-> name, loads |-> 1, mode |-> "eval", weights |-> "pretrained"]

\* A forward pass under torch.no_grad() of a model in eval mode: the model
\* object is read and left as it is.
\* (forward_reload: a call that loads the model again.)
forward_reload(m) == [m EXCEPT !.loads = @ + 1]
forward(m) == m

id2label(l) == IF l = 1 THEN "person" ELSE IF l = 17 THEN "cat" ELSE "N/A"

----------------------------------------------------------------------------
(* django.core.files.storage.FileSystemStorage rooted at MEDIA_ROOT *)

Suffixes == {"x7Kq2Lm", "Pz3wR8t"}

ToPath(name) == name.root \o name.ext
get_alternative_name(name, s) == [root |-> name.root \o "_" \o s, ext |-> name.ext]
exists(fs, path) == path \in DOMAIN fs

\* fs.save's choice of a name: the name given when no file has it, else the
\* root with a random suffix, drawn until no file has the result. The names
\* uploaded in the model are valid file names, which get_valid_name keeps.
\* (get_available_name_overwrite: a storage that reuses the name given.)
get_available_name_overwrite(fs, name) == {ToPath(name)}
get_available_name(fs, name) ==
    IF ~exists(fs, ToPath(name))
    THEN {ToPath(name)}
    ELSE {ToPath(get_alternative_name(name, s)) :
             s \in {t \in Suffixes : ~exists(fs, ToPath(get_alternative_name(name, t)))}}

UploadContent(r, u) == [kind |-> "upload", owner |-> r, decodable |-> u.decodable, rgb |-> u.rgb]

\* processed_filename = f"processed_{filename}"; os.path.join(MEDIA_ROOT, ...)
\* of a bare file name is the file of that name in the media directory.
processed_name(fname) == "processed_" \o fname

----------------------------------------------------------------------------
(* PIL / numpy / cv2 *)

\* cv2.cvtColor(image_np, cv2.COLOR_RGB2BGR): the channels in reverse order.
\* (cvtColor_identity: the conversion left out.)
cvtColor_identity(img) == img
cvtColor_RGB2BGR(img) == [p \in DOMAIN img |-> <<img[p][3], img[p][2], img[p][1]>>]

\* What a decoder reads back from a file cv2.imwrite wrote from a BGR array.
imwrite_picture(bgr) == [p \in DOMAIN bgr |-> <<bgr[p][3], bgr[p][2], bgr[p][1]>>]

\* int(i) of a float: truncation towards zero.
int(t) == IF t >= 0 THEN t \div 10 ELSE -((-t) \div 10)

\* f"{score:.2f}": the score rounded to hundredths (scores of the model do not
\* end in a 5 in the thousandths, where the binary value decides).
Digit(d) == ToString(d)
score_fmt(s) ==
    LET h == (s + 5) \div 10
    IN  Digit(h \div 100) \o "." \o Digit((h % 100) \div 10) \o Digit(h % 10)

\* cv2.rectangle(img, (x1,y1), (x2,y2), color, thickness): the outline of the
\* box, a band of half the thickness on each side, clipped to the image.
Near(a, b) == a - b <= Thickness \div 2 /\ b - a <= Thickness \div 2
OnOutline(p, b) ==
    \/ (Near(p[1], b[1]) \/ Near(p[1], b[3]))
          /\ p[2] >= b[2] - Thickness \div 2 /\ p[2] <= b[4] + Thickness \div 2
    \/ (Near(p[2], b[2]) \/ Near(p[2], b[4]))
          /\ p[1] >= b[1] - Thickness \div 2 /\ p[1] <= b[3] + Thickness \div 2
rectangle(img, b, color) ==
    [p \in DOMAIN img |-> IF OnOutline(p, b) THEN color ELSE img[p]]

\* mask[0].mul(255).byte(): the mask value scaled and truncated to a byte.
mask_byte(m) == ((m * MaskScale) \div 1000) % 256

\* mask > 128 (mask_on_ge: >= in its place)
mask_on_ge(m) == mask_byte(m) >= MaskThreshold
mask_on(m) == mask_byte(m) > MaskThreshold

\* old * 0.5 + color * 0.5 stored into a uint8 array: truncated to a byte.
blend_channel(old, c) == ((old * 5 + c * 5) \div 10) % 256
blend_pixel(old, color) ==
    <<blend_channel(old[1], color[1]), blend_channel(old[2], color[2]),
      blend_channel(old[3], color[3])>>

\* image_cv[mask > 128] = image_cv[mask > 128] * 0.5 + color * 0.5
blend_mask(img, mask, color) ==
    [p \in DOMAIN img |-> IF mask_on(mask[p]) THEN blend_pixel(img[p], color) ELSE img[p]]

----------------------------------------------------------------------------
(* The score filters *)

\* post_process_object_detection(..., threshold=0.9) keeps the results whose
\* score is greater than the threshold (scores[scores > threshold]), in the
\* model's order. (det_keep_ge, seg_keep_ge: >= in place of >.)
det_keep_ge(score) == score >= DetThreshold
det_keep(score) == score > DetThreshold

\* if score > 0.5
seg_keep_ge(score) == score >= SegThreshold
seg_keep(score) == score > SegThreshold

RECURSIVE post_process(_, _)
post_process(out, i) ==
    IF i > Len(out) THEN <<>>
    ELSE (IF det_keep(out[i].score)
          THEN <<[id |-> i, score |-> out[i].score, label |-> out[i].label, box |-> out[i].box]>>
          ELSE <<>>) \o post_process(out, i + 1)

----------------------------------------------------------------------------
(* urls.py *)

urlpatterns == [u \in {"", "detection/", "segmentation/"} |->
                  IF u = "" THEN "index" ELSE IF u = "detection/" THEN "detection" ELSE "segmentation"]

----------------------------------------------------------------------------
(* What the views return *)

NoResponse == [status |-> 0, template |-> "", original |-> "", processed |-> "", error |-> ""]

render(template, original, processed) ==
    [status |-> 200, template |-> template, original |-> original, processed |-> processed, error |-> ""]

\* The views hold no try/except: an exception raised inside a view leaves it
\* at once and reaches the caller, which answers with a server error.
\* (propagate_swallowed: the exception caught and the result page rendered.)
propagate_swallowed(r, exc) ==
    render(view[r] \o "_result.html", filename[r], processed_name(filename[r]))
propagate(r, exc) ==
    [status |-> 500, template |-> "", original |-> "", processed |-> "", error |-> exc]

NoUpload(method) ==
    [method |-> method, has_file |-> FALSE, name |-> [root |-> "", ext |-> ""],
     decodable |-> FALSE, rgb |-> NoImage]

NotWritten == [ret |-> "none", path |-> "", buf |-> NoImage]

\* Requests are taken up in the order of their numbers.
Arrives(r) == pc[r] = "idle" /\ (IF r = 1 THEN TRUE ELSE pc[r - 1] # "idle")

----------------------------------------------------------------------------
(* index *)

index(r) ==
    /\ Arrives(r)
    /\ \E u \in DOMAIN urlpatterns : urlpatterns[u] = "index" /\ view' = [view EXCEPT ![r] = urlpatterns[u]]
    /\ response' = [response EXCEPT ![r] = render("index.html", "", "")]
    /\ pc' = [pc EXCEPT ![r] = "done"]
    /\ UNCHANGED <<detr_model, maskrcnn_model, files, upload, filename, image_np,
                   image_cv, outputs, results, idx, drawn, blended, written>>

----------------------------------------------------------------------------
(* Steps the two upload views share *)

\* if request.method == 'POST' and request.FILES.get('image') is false:
\* the view renders its form.
form(r, v, template) ==
    /\ Arrives(r)
    /\ \E u \in DOMAIN urlpatterns : urlpatterns[u] = v /\ view' = [view EXCEPT ![r] = urlpatterns[u]]
    /\ \E m \in {"GET", "POST"} : upload' = [upload EXCEPT ![r] = NoUpload(m)]
    /\ response' = [response EXCEPT ![r] = render(template, "", "")]
    /\ pc' = [pc EXCEPT ![r] = "done"]
    /\ UNCHANGED <<detr_model, maskrcnn_model, files, filename, image_np,
                   image_cv, outputs, results, idx, drawn, blended, written>>

\* filename = fs.save(image_file.name, image_file)
save(r, v, Uploads) ==
    /\ Arrives(r)
    /\ \E u \in DOMAIN urlpatterns : urlpatterns[u] = v /\ view' = [view EXCEPT ![r] = urlpatterns[u]]
    /\ \E f \in Uploads :
         \E fname \in get_available_name(files, f.name) :
            /\ upload' = [upload EXCEPT ![r] = f]
            /\ filename' = [filename EXCEPT ![r] = fname]
            /\ files' = (fname :> UploadContent(r, f)) @@ files
    /\ pc' = [pc EXCEPT ![r] = "open"]
    /\ UNCHANGED <<detr_model, maskrcnn_model, image_np, image_cv, outputs,
                   results, idx, drawn, blended, written, response>>

\* image = Image.open(image_path).convert("RGB"); image_np = np.array(image)
open(r, v) ==
    /\ pc[r] = "open" /\ view[r] = v
    /\ LET c == files[filename[r]]
       IN  IF c.decodable
           THEN /\ image_np' = [image_np EXCEPT ![r] = c.rgb]
                /\ pc' = [pc EXCEPT ![r] = "infer"]
                /\ UNCHANGED response
           ELSE /\ response' = [response EXCEPT ![r] = propagate(r, "DecodeError")]
                /\ pc' = [pc EXCEPT ![r] = "error"]
                /\ UNCHANGED image_np
    /\ UNCHANGED <<detr_model, maskrcnn_model, files, view, upload, filename,
                   image_cv, outputs, results, idx, drawn, blended, written>>

\* The model call raises.
infer_fails(r, v) ==
    /\ pc[r] = "infer" /\ view[r] = v
    /\ response' = [response EXCEPT ![r] = propagate(r, "InferenceError")]
    /\ pc' = [pc EXCEPT ![r] = "error"]
    /\ UNCHANGED <<detr_model, maskrcnn_model, files, view, upload, filename, image_np,
                   image_cv, outputs, results, idx, drawn, blended, written>>

\* cv2.imwrite(processed_path, image_cv), whose value the view drops, and the
\* return render(...) that follows. imwrite returns True when the file is
\* written, returns False when it cannot write it, and raises cv2.error when
\* it has no encoder for the name.
write(r, v, template) ==
    /\ pc[r] = "write" /\ view[r] = v
    /\ \E ret \in {"ok", "false", "raise"} :
         LET path == processed_name(filename[r])
         IN  /\ written' = [written EXCEPT ![r] = [ret |-> ret, path |-> path, buf |-> image_cv[r]]]
             /\ files' = IF ret = "ok"
                         THEN (path :> [kind |-> "processed", owner |-> r, decodable |-> TRUE,
                                        rgb |-> imwrite_picture(image_cv[r])]) @@ files
                         ELSE files
             /\ response' = [response EXCEPT ![r] =
                                IF ret = "raise" THEN propagate(r, "cv2.error")
                                ELSE render(template, filename[r], path)]
             /\ pc' = [pc EXCEPT ![r] = IF ret = "raise" THEN "error" ELSE "done"]
    /\ UNCHANGED <<detr_model, maskrcnn_model, view, upload, filename, image_np,
                   image_cv, outputs, results, idx, drawn, blended>>

----------------------------------------------------------------------------
(* detection *)

detection_form(r) == form(r, "detection", "detection.html")
detection_save(r, Uploads) == save(r, "detection", Uploads)
detection_open(r) == open(r, "detection")
detection_infer_fails(r) == infer_fails(r, "detection")

\* inputs = detr_processor(...); outputs = detr_model(**inputs);
\* results = post_process_object_detection(..., threshold=0.9)[0];
\* image_cv = cv2.cvtColor(image_np, cv2.COLOR_RGB2BGR)
detection_infer(r, DetOutputs) ==
    /\ pc[r] = "infer" /\ view[r] = "detection"
    /\ \E out \in DetOutputs :
         /\ outputs' = [outputs EXCEPT ![r] = out]
         /\ results' = [results EXCEPT ![r] = post_process(out, 1)]
    /\ detr_model' = forward(detr_model)
    /\ image_cv' = [image_cv EXCEPT ![r] = cvtColor_RGB2BGR(image_np[r])]
    /\ idx' = [idx EXCEPT ![r] = 1]
    /\ pc' = [pc EXCEPT ![r] = "draw"]
    /\ UNCHANGED <<maskrcnn_model, files, view, upload, filename, image_np,
                   drawn, blended, written, response>>

\* One turn of: for score, label, box in zip(results[...]): rectangle, putText.
\* The text is put with its baseline TextOffset pixels above the box's top:
\* in the pictures of the model, which are lower than TextOffset, that is
\* above the picture, where cv2 clips it. The call is kept in drawn.
detection_draw(r) ==
    /\ pc[r] = "draw" /\ view[r] = "detection"
    /\ idx[r] <= Len(results[r])
    /\ LET d == results[r][idx[r]]
           box == [i \in 1..4 |-> int(d.box[i])]
           text == id2label(d.label) \o " " \o score_fmt(d.score)
       IN  /\ image_cv' = [image_cv EXCEPT ![r] = rectangle(@, box, Green)]
           /\ drawn' = [drawn EXCEPT ![r] =
                          Append(@, [id |-> d.id, score |-> d.score, box |-> box, text |-> text,
                                     org |-> <<box[1], box[2] - TextOffset>>])]
    /\ idx' = [idx EXCEPT ![r] = @ + 1]
    /\ UNCHANGED <<detr_model, maskrcnn_model, files, pc, view, upload, filename,
                   image_np, outputs, results, blended, written, response>>

detection_drawn(r) ==
    /\ pc[r] = "draw" /\ view[r] = "detection"
    /\ idx[r] > Len(results[r])
    /\ pc' = [pc EXCEPT ![r] = "write"]
    /\ UNCHANGED <<detr_model, maskrcnn_model, files, view, upload, filename, image_np,
                   image_cv, outputs, results, idx, drawn, blended, written, response>>

detection_write(r) == write(r, "detection", "detection_result.html")

----------------------------------------------------------------------------
(* segmentation *)

segmentation_form(r) == form(r, "segmentation", "segmentation.html")
segmentation_save(r, Uploads) == save(r, "segmentation", Uploads)
segmentation_open(r) == open(r, "segmentation")
segmentation_infer_fails(r) == infer_fails(r, "segmentation")

\* predictions = maskrcnn_model([image_tensor])[0];
\* image_cv = cv2.cvtColor(image_np, cv2.COLOR_RGB2BGR)
segmentation_infer(r, SegOutputs) ==
    /\ pc[r] = "infer" /\ view[r] = "segmentation"
    /\ \E out \in SegOutputs : outputs' = [outputs EXCEPT ![r] = out]
    /\ maskrcnn_model' = forward(maskrcnn_model)
    /\ image_cv' = [image_cv EXCEPT ![r] = cvtColor_RGB2BGR(image_np[r])]
    /\ idx' = [idx EXCEPT ![r] = 1]
    /\ pc' = [pc EXCEPT ![r] = "blend"]
    /\ UNCHANGED <<detr_model, files, view, upload, filename, image_np,
                   results, drawn, blended, written, response>>

\* enumerate(zip(masks, scores, labels)) yields the instances in the model's
\* order: the i-th turn of the loop takes the i-th instance of n.
\* (loop_item_reversed: the instances taken last to first.)
loop_item_reversed(i, n) == n + 1 - i
loop_item(i, n) == i

\* One turn of the loop: if score > 0.5, a random colour is blended in where
\* the mask is on.
segmentation_blend(r, Colors) ==
    /\ pc[r] = "blend" /\ view[r] = "segmentation"
    /\ idx[r] <= Len(outputs[r])
    /\ LET k == loop_item(idx[r], Len(outputs[r]))
           inst == outputs[r][k]
       IN  IF seg_keep(inst.score)
           THEN \E color \in Colors :
                  LET after == blend_mask(image_cv[r], inst.mask, color)
                  IN  /\ image_cv' = [image_cv EXCEPT ![r] = after]
                      /\ blended' = [blended EXCEPT ![r] =
                                       Append(@, [id |-> k, score |-> inst.score, color |-> color,
                                                  before |-> image_cv[r], after |-> after])]
           ELSE UNCHANGED <<image_cv, blended>>
    /\ idx' = [idx EXCEPT ![r] = @ + 1]
    /\ UNCHANGED <<detr_model, maskrcnn_model, files, pc, view, upload, filename,
                   image_np, outputs, results, drawn, written, response>>

segmentation_blended(r) ==
    /\ pc[r] = "blend" /\ view[r] = "segmentation"
    /\ idx[r] > Len(outputs[r])
    /\ pc' = [pc EXCEPT ![r] = "write"]
    /\ UNCHANGED <<detr_model, maskrcnn_model, files, view, upload, filename, image_np,
                   image_cv, outputs, results, idx, drawn, blended, written, response>>

segmentation_write(r) == write(r, "segmentation", "segmentation_result.html")

----------------------------------------------------------------------------
(* The inputs the model draws from *)

Black == [p \in Pos |-> <<0, 0, 0>>]
Palette == <<<<255, 128, 7>>, <<10, 200, 255>>, <<0, 0, 0>>>>
Patterned == [p \in Pos |-> Palette[((p[1] + p[2]) % 3) + 1]]

Name(root, ext) == [root |-> root, ext |-> ext]
File(name, pic) ==
    [method |-> "POST", has_file |-> TRUE, name |-> name, decodable |-> TRUE, rgb |-> pic]
CorruptFile(name) ==
    [method |-> "POST", has_file |-> TRUE, name |-> name, decodable |-> FALSE, rgb |-> NoImage]

\* Mask values 0, 502, 506 and 1000 are the bytes 0, 128, 129 and 255.
MaskLeft == [p \in Pos |-> IF p[1] = 0 THEN 1000 ELSE 502]
MaskTop == [p \in Pos |-> IF p[2] = 0 THEN 506 ELSE 0]
MaskEdge == [p \in Pos |-> 502]
MaskAll == [p \in Pos |-> 1000]
Masks == {MaskLeft, MaskTop, MaskEdge, MaskAll}

SegScores == {300, 500, 501, 990}
SegCands == [mask : Masks, score : SegScores, label : {1}]

DetScores == {500, 899, 900, 901, 998}
Boxes == {<<0, 0, 19, 12>>, <<-15, 5, 58, 39>>}
DetCands == [score : DetScores, label : {1, 17}, box : Boxes]

SeqsUpTo(S, n) == UNION {[1..k -> S] : k \in 0..n}

\* One request, with every picture, model output and colour of the bounds.
PipeInputs ==
    [uploads |-> {File(Name("a", ".png"), Black), File(Name("a", ".png"), Patterned),
                  CorruptFile(Name("a", ".png"))},
     det     |-> SeqsUpTo(DetCands, MaxResults),
     seg     |-> SeqsUpTo(SegCands, MaxResults),
     colors  |-> {<<0, 0, 0>>, <<RandHigh - 1, 11, 100>>}]

\* Several requests, with the names that meet in the media directory.
SiteInputs ==
    [uploads |-> {File(Name("a", ".png"), Patterned), File(Name("processed_a", ".png"), Patterned),
                  CorruptFile(Name("a", ".png"))},
     det     |-> {<<[score |-> 998, label |-> 17, box |-> <<0, 0, 19, 12>>]>>,
                  <<[score |-> 899, label |-> 1, box |-> <<0, 0, 19, 12>>]>>},
     seg     |-> {<<[mask |-> MaskLeft, score |-> 990, label |-> 1]>>,
                  <<[mask |-> MaskAll, score |-> 300, label |-> 1]>>},
     colors  |-> {<<RandHigh - 1, 11, 100>>}]

----------------------------------------------------------------------------
(* The specifications *)

InitOver(R) ==
    /\ detr_model = LoadedModel("facebook/detr-resnet-50")
    /\ maskrcnn_model = LoadedModel("maskrcnn_resnet50_fpn")
    /\ files = <<>>
    /\ pc = [r \in R |-> "idle"]
    /\ view = [r \in R |-> ""]
    /\ upload = [r \in R |-> NoUpload("")]
    /\ filename = [r \in R |-> ""]
    /\ image_np = [r \in R |-> NoImage]
    /\ image_cv = [r \in R |-> NoImage]
    /\ outputs = [r \in R |-> <<>>]
    /\ results = [r \in R |-> <<>>]
    /\ idx = [r \in R |-> 0]
    /\ drawn = [r \in R |-> <<>>]
    /\ blended = [r \in R |-> <<>>]
    /\ written = [r \in R |-> NotWritten]
    /\ response = [r \in R |-> NoResponse]

Step(r, In) ==
    \/ index(r)
    \/ detection_form(r)
    \/ detection_save(r, In.uploads)
    \/ detection_open(r)
    \/ detection_infer(r, In.det)
    \/ detection_infer_fails(r)
    \/ detection_draw(r)
    \/ detection_drawn(r)
    \/ detection_write(r)
    \/ segmentation_form(r)
    \/ segmentation_save(r, In.uploads)
    \/ segmentation_open(r)
    \/ segmentation_infer(r, In.seg)
    \/ segmentation_infer_fails(r)
    \/ segmentation_blend(r, In.colors)
    \/ segmentation_blended(r)
    \/ segmentation_write(r)

Init == InitOver(Requests)
Next == \E r \in Requests : Step(r, SiteInputs)
Spec == Init /\ [][Next]_vars

InitPipe == InitOver({1})
NextPipe == Step(1, PipeInputs)
SpecPipe == InitPipe /\ [][NextPipe]_vars

----------------------------------------------------------------------------
(* Properties *)

Reqs == DOMAIN pc
IsDetection(r) == view[r] = "detection"
IsSegmentation(r) == view[r] = "segmentation"
WriteCalled(r) == written[r].ret # "none"
LoopFinished(r) == pc[r] = "write" \/ WriteCalled(r)

\* The expected conversions and arithmetic, stated on their own.
Reversed(img) == [p \in DOMAIN img |-> <<img[p][3], img[p][2], img[p][1]>>]
Half(a, b) == (a + b) \div 2
Mix(px, color) == <<Half(px[1], color[1]), Half(px[2], color[2]), Half(px[3], color[3])>>
ByteOf(m) == (m * 255) \div 1000
TimesDrawn(r, i) == Cardinality({k \in 1..Len(drawn[r]) : drawn[r][k].id = i})
TimesBlended(r, i) == Cardinality({k \in 1..Len(blended[r]) : blended[r][k].id = i})
Ascending(log) == \A k \in 1..(Len(log) - 1) : log[k].id < log[k + 1].id

\* C1 as the specification states it: a detection is drawn exactly once if
\* and only if its score is >= 0.9, a score of exactly 0.9 included.
C1_DrawnIffAtLeastThreshold ==
    \A r \in Reqs : IsDetection(r) /\ LoopFinished(r) =>
        \A i \in 1..Len(outputs[r]) :
            (outputs[r][i].score >= 900) <=> (TimesDrawn(r, i) = 1)

\* C1, amended: a rectangle and label are drawn for a detection if and only
\* if its score is > 0.9. At no time is a detection with score <= 0.9 drawn
\* (one of exactly 0.9 is not drawn), no detection is drawn twice, the list
\* the loop draws from holds only results above the threshold, and when the
\* loop has finished every detection with score > 0.9 is drawn exactly once.
C1_DrawnIffAboveThreshold ==
    \A r \in Reqs : IsDetection(r) =>
        /\ \A k \in 1..Len(drawn[r]) :
              /\ drawn[r][k].id \in 1..Len(outputs[r])
              /\ outputs[r][drawn[r][k].id].score > 900
        /\ Ascending(drawn[r])
        /\ \A j \in 1..Len(results[r]) : results[r][j].score > 900
        /\ LoopFinished(r) =>
              \A i \in 1..Len(outputs[r]) :
                 (outputs[r][i].score > 900) <=> (TimesDrawn(r, i) = 1)

C1_Witness ==
    \E r \in Reqs :
        /\ IsDetection(r) /\ LoopFinished(r)
        /\ \E i, j \in 1..Len(outputs[r]) :
              /\ outputs[r][i].score = 900 /\ TimesDrawn(r, i) = 0
              /\ outputs[r][j].score = 901 /\ TimesDrawn(r, j) = 1

\* C2: a segmentation instance is blended if and only if its score is > 0.5.
\* No instance with score <= 0.5 is ever blended, none is blended twice, the
\* picture changes only through the blends of the kept instances (it is the
\* converted input until the first blend, and after that what the latest
\* blend left), and when the loop has finished every instance with score
\* > 0.5 has been blended exactly once.
C2_BlendedIffAboveHalf ==
    \A r \in Reqs : IsSegmentation(r) /\ pc[r] \notin {"idle", "open", "infer"} /\ image_cv[r] # NoImage =>
        /\ \A k \in 1..Len(blended[r]) :
              /\ blended[r][k].id \in 1..Len(outputs[r])
              /\ outputs[r][blended[r][k].id].score > 500
              /\ blended[r][k].before =
                    (IF k = 1 THEN Reversed(image_np[r]) ELSE blended[r][k - 1].after)
        /\ image_cv[r] =
              (IF blended[r] = <<>> THEN Reversed(image_np[r])
               ELSE blended[r][Len(blended[r])].after)
        /\ \A i \in 1..Len(outputs[r]) : TimesBlended(r, i) <= 1
        /\ LoopFinished(r) =>
              \A i \in 1..Len(outputs[r]) :
                 (outputs[r][i].score > 500) <=> (TimesBlended(r, i) = 1)

C2_Witness ==
    \E r \in Reqs :
        /\ IsSegmentation(r) /\ LoopFinished(r)
        /\ \E i, j \in 1..Len(outputs[r]) :
              /\ i < j
              /\ outputs[r][i].score = 501 /\ TimesBlended(r, i) = 1
              /\ outputs[r][j].score = 500 /\ outputs[r][j].mask = MaskAll
              /\ TimesBlended(r, j) = 0
        /\ image_cv[r] # Reversed(image_np[r])

\* The model returned nothing that qualifies: every score is below the
\* view's threshold, or the list is empty.
NoneQualifies(r) ==
    \A i \in 1..Len(outputs[r]) :
        outputs[r][i].score < (IF IsDetection(r) THEN 900 ELSE 500)

\* C3: in either view, when no result qualifies, the array handed to
\* cv2.imwrite is the decoded input with its channels reversed (RGB to BGR),
\* no rectangle, text or blend was made, and the file written holds the
\* decoded input's picture.
C3_NothingQualifiesNothingDrawn ==
    \A r \in Reqs : WriteCalled(r) /\ NoneQualifies(r) =>
        /\ written[r].buf = Reversed(image_np[r])
        /\ drawn[r] = <<>> /\ blended[r] = <<>>
        /\ written[r].ret = "ok" =>
              /\ written[r].path \in DOMAIN files
              /\ files[written[r].path].rgb = image_np[r]

C3_Witness ==
    \E r1, r2 \in Reqs :
        /\ IsDetection(r1) /\ IsSegmentation(r2)
        /\ \A r \in {r1, r2} :
              /\ written[r].ret = "ok" /\ NoneQualifies(r) /\ Len(outputs[r]) > 0
              /\ image_np[r] = Patterned /\ written[r].buf # image_np[r]

OriginalName(r) == upload[r].name.root \o upload[r].name.ext
ProcessedFilesOf(name) ==
    {p \in DOMAIN files : files[p].kind = "processed"
                          /\ OriginalName(files[p].owner) = name}

\* C4 as the specification states it: the annotated image is written under
\* 'processed_' + the upload's original name, and however many requests
\* upload a name, one annotated file exists for it.
C4_ProcessedOfOriginalName ==
    /\ \A r \in Reqs : WriteCalled(r) => written[r].path = "processed_" \o OriginalName(r)
    /\ \A r \in Reqs : upload[r].has_file => Cardinality(ProcessedFilesOf(OriginalName(r))) <= 1

\* C4, amended: the annotated image is written under 'processed_' + the name
\* fs.save stored the upload under, which is the original name or, when a
\* file of that name was there, its root with a random suffix. Two requests
\* are never stored under the same name, so they never write their annotated
\* image to the same path: an annotated file once written stays that
\* request's, and a name uploaded k times with success has k annotated files.
C4_ProcessedOfStoredName ==
    /\ \A r \in Reqs : WriteCalled(r) => written[r].path = "processed_" \o filename[r]
    /\ \A r \in Reqs : filename[r] # "" =>
          \/ filename[r] = OriginalName(r)
          \/ \E s \in Suffixes :
                filename[r] = upload[r].name.root \o "_" \o s \o upload[r].name.ext
    /\ \A r1, r2 \in Reqs :
          r1 # r2 /\ filename[r1] # "" /\ filename[r2] # "" => filename[r1] # filename[r2]
    /\ \A r \in Reqs : written[r].ret = "ok" =>
          /\ written[r].path \in DOMAIN files
          /\ files[written[r].path].kind = "processed"
          /\ files[written[r].path].owner = r
    /\ \A r \in Reqs : upload[r].has_file =>
          Cardinality(ProcessedFilesOf(OriginalName(r))) =
             Cardinality({q \in Reqs : /\ upload[q].has_file
                                       /\ OriginalName(q) = OriginalName(r)
                                       /\ written[q].ret = "ok"})

C4_Witness ==
    \E r1, r2 \in Reqs :
        /\ r1 # r2 /\ OriginalName(r1) = OriginalName(r2)
        /\ written[r1].ret = "ok" /\ written[r2].ret = "ok"
        /\ written[r1].path # written[r2].path
        /\ filename[r2] # OriginalName(r2)

\* The request left its view by an exception before the drawing copy was
\* made: Image.open or the model call raised.
FailedBeforeDrawing(r) == pc[r] = "error" /\ image_cv[r] = NoImage

\* C5: a request in which decoding the upload or the model call raised has
\* ended with that error handed to the caller: no result page, no imwrite
\* call, no annotated file of that request, nothing drawn, and the step that
\* failed was not followed by another (after a decode error no inference ran).
C5_FailedCallWritesNothing ==
    \A r \in Reqs : FailedBeforeDrawing(r) =>
        /\ response[r].status = 500
        /\ response[r].error \in {"DecodeError", "InferenceError"}
        /\ response[r].processed = "" /\ response[r].template = ""
        /\ written[r].ret = "none"
        /\ \A p \in DOMAIN files : ~(files[p].kind = "processed" /\ files[p].owner = r)
        /\ drawn[r] = <<>> /\ blended[r] = <<>> /\ outputs[r] = <<>>
        /\ image_np[r] = NoImage <=> response[r].error = "DecodeError"

C5_Witness ==
    \E r1, r2 \in Reqs :
        /\ response[r1].error = "DecodeError" /\ response[r2].error = "InferenceError"
        /\ pc[r1] = "error" /\ pc[r2] = "error"

\* C6 as the specification states it: whenever the write of the processed
\* file does not succeed the request ends in an error, and a result page
\* naming a processed file is rendered only for a file that was written.
C6_WriteFailureSurfaces ==
    \A r \in Reqs :
        /\ written[r].ret \in {"false", "raise"} => pc[r] = "error" /\ response[r].status = 500
        /\ response[r].status = 200 /\ response[r].processed # "" => written[r].ret = "ok"

\* The kept instances whose mask is on at p, and the colour each was given.
Covers(r, i, p) == outputs[r][i].score > 500 /\ ByteOf(outputs[r][i].mask[p]) > 128
Covering(r, p) == {i \in 1..Len(outputs[r]) : Covers(r, i, p)}
ColorOf(r, i) == blended[r][CHOOSE k \in 1..Len(blended[r]) : blended[r][k].id = i].color
EntryOf(r, i) == blended[r][CHOOSE k \in 1..Len(blended[r]) : blended[r][k].id = i]
Last(S) == CHOOSE i \in S : \A j \in S : j <= i

\* The pixel at p after the instances from i on, taken in the model's output
\* order, have each been mixed in where they cover p.
RECURSIVE InOutputOrder(_, _, _, _)
InOutputOrder(r, p, i, px) ==
    IF i > Len(outputs[r]) THEN px
    ELSE InOutputOrder(r, p, i + 1, IF Covers(r, i, p) THEN Mix(px, ColorOf(r, i)) ELSE px)

\* C7: the kept instances are blended in the model's output order, and when
\* the loop has finished every pixel is the input pixel with the colours of
\* the instances covering it mixed in one after the other in that order;
\* where two or more cover a pixel, its value is the mix of the last one's
\* colour with what the earlier ones had left there.
C7_LastDrawnWins ==
    \A r \in Reqs : IsSegmentation(r) /\ pc[r] \notin {"idle", "open", "infer"} /\ image_cv[r] # NoImage =>
        /\ Ascending(blended[r])
        /\ LoopFinished(r) =>
              \A p \in Pos :
                 /\ image_cv[r][p] = InOutputOrder(r, p, 1, Reversed(image_np[r])[p])
                 /\ Cardinality(Covering(r, p)) >= 2 =>
                       LET e == EntryOf(r, Last(Covering(r, p)))
                       IN  image_cv[r][p] = Mix(e.before[p], e.color)

C7_Witness ==
    \E r \in Reqs :
        /\ IsSegmentation(r) /\ LoopFinished(r)
        /\ \E p \in Pos :
              /\ Cardinality(Covering(r, p)) >= 2
              /\ \E i, j \in Covering(r, p) :
                    /\ i < j /\ j = Last(Covering(r, p))
                    /\ ColorOf(r, i) # ColorOf(r, j)
                    /\ image_cv[r][p] = Mix(Mix(Reversed(image_np[r])[p], ColorOf(r, i)), ColorOf(r, j))
                    /\ image_cv[r][p] # Mix(Mix(Reversed(image_np[r])[p], ColorOf(r, j)), ColorOf(r, i))

\* C8: the two models are loaded once, when the module is imported, and no
\* view changes them: in every state each is as it was loaded.
C8_ModelsAsLoaded ==
    /\ detr_model = [name |-> "facebook/detr-resnet-50", loads |-> 1, mode |-> "eval",
                     weights |-> "pretrained"]
    /\ maskrcnn_model = [name |-> "maskrcnn_resnet50_fpn", loads |-> 1, mode |-> "eval",
                         weights |-> "pretrained"]

C8_Witness ==
    \E r1, r2 \in Reqs :
        /\ IsDetection(r1) /\ pc[r1] = "done" /\ Len(outputs[r1]) > 0
        /\ IsSegmentation(r2) /\ pc[r2] = "done" /\ Len(outputs[r2]) > 0

\* C9: a blend with colour c changes the pixels where the mask value, scaled
\* to 0..255 and truncated, is > 128 (128 itself is left), each channel to
\* (old + c) / 2 truncated, a value in 0..255, and leaves every other pixel.
C9_BlendArithmetic ==
    \A r \in Reqs : IsSegmentation(r) =>
        \A k \in 1..Len(blended[r]) :
            LET e == blended[r][k]
                mask == outputs[r][e.id].mask
            IN  \A p \in Pos :
                   IF ByteOf(mask[p]) > 128
                   THEN \A c \in 1..3 :
                           /\ e.after[p][c] = Half(e.before[p][c], e.color[c])
                           /\ e.after[p][c] \in 0..255
                   ELSE e.after[p] = e.before[p]

C9_Witness ==
    \E r \in Reqs : \E k \in 1..Len(blended[r]) :
        LET e == blended[r][k]
            mask == outputs[r][e.id].mask
        IN  \E p, q \in Pos :
               /\ ByteOf(mask[p]) = 128 /\ e.after[p] = e.before[p]
               /\ ByteOf(mask[q]) = 255 /\ e.after[q] # e.before[q]
               /\ \E c \in 1..3 : e.before[q][c] = 255 /\ e.color[c] = 254 /\ e.after[q][c] = 254
               /\ \E c \in 1..3 : (e.before[q][c] + e.color[c]) % 2 = 1

\* C10 as stated: the file stored as a request's upload is never overwritten
\* by an annotated image, and no two requests write their annotated image to
\* the same path.
C10_UploadsNeverOverwritten ==
    /\ \A r \in Reqs : filename[r] # "" =>
          /\ filename[r] \in DOMAIN files
          /\ files[filename[r]].kind = "upload"
          /\ files[filename[r]].owner = r
    /\ \A r1, r2 \in Reqs :
          r1 # r2 /\ WriteCalled(r1) /\ WriteCalled(r2) => written[r1].path # written[r2].path

============================================================================
